---- MODULE Spec2Model ----
(***************************************************************************)
(* The HTTP backend of ovirt-imageio (ovirt_imageio_common/backends/      *)
(* http.py) as a state machine: one Backend object, the connection(s) it  *)
(* owns, and the imageio server it talks to.                              *)
(*                                                                         *)
(* Every public method of Backend is one action.  An action runs the      *)
(* whole method, including the private helpers it calls, against one      *)
(* server response chosen by the environment: the honest response of a    *)
(* server that implements the wire protocol, or one of the faults a       *)
(* server or the network can produce.                                     *)
(*                                                                         *)
(* http.client is modelled by its contract: request() opens the socket    *)
(* when it is closed (auto_open), getresponse() returns the status line   *)
(* and headers, read()/readinto() deliver the body.                       *)
(***************************************************************************)
EXTENDS Integers, Sequences, FiniteSets, TLC

VARIABLES
    pc,             \* "new": before Backend(...); "open": constructed; "failed": __init__ raised
    _position,      \* Backend._position
    _size,          \* Backend._size: None or Some(n)
    _extents,       \* Backend._extents: context -> None or Some(list)
    _can_extents,   \* Backend._can_extents
    _can_zero,      \* Backend._can_zero
    _can_flush,     \* Backend._can_flush
    _con,           \* Backend._con: which connection object is active, "https" or "unix"
    sock,           \* per connection object: is its socket open
    image,          \* server: the cells of the image
    unit,           \* server: bytes per cell of image
    closed,         \* history: close() has returned
    probe,          \* history: what the environment answered during __init__
    unixAttempts,   \* history: UnixHTTPConnection objects created so far (saturates at 2)
    last,           \* history: the last call, what it sent and what it returned
    extOk,          \* history: context -> extents queries answered 200 and decoded (saturates at 2)
    cacheFault,     \* history: context -> the fault under which _extents[context] was filled
    sizeVia,        \* history: how _size was resolved: "extents", "head", or "fault"
    lastWrite       \* history: offset and bytes of the last successful write, until overwritten

vars == <<pc, _position, _size, _extents, _can_extents, _can_zero, _can_flush,
          _con, sock, image, unit, closed, probe, unixAttempts, last,
          extOk, cacheFault, sizeVia, lastWrite>>

-----------------------------------------------------------------------------
(* Bounds of the model. *)

\* longest image, in cells
MaxImage == 2
\* longest buffer passed to readinto and write, longest zero
MaxLen == 2

\* seek offsets
SeekOffsets == {-1, 0, 1}
\* calls that would move _position out of Positions are not explored: one
\* byte before the image to one byte past its end
Positions(u) == -1..((MaxImage + 1) * u)

-----------------------------------------------------------------------------
(* Program constants. *)

OK == 200
NO_CONTENT == 204
PARTIAL_CONTENT == 206
NOT_FOUND == 404
METHOD_NOT_ALLOWED == 405
\* res.read(512), data[:512]
DiagLimit == 512
\* client_test.py: CLUSTER_SIZE = 64 * 1024, IMAGE_SIZE = 3 * CLUSTER_SIZE
CLUSTER_SIZE == 64 * 1024
IMAGE_SIZE == 3 * CLUSTER_SIZE

SEEK_SET == "SEEK_SET"
SEEK_CUR == "SEEK_CUR"
SEEK_END == "SEEK_END"

-----------------------------------------------------------------------------
(* Python values. *)

None == <<>>
Some(x) == <<x>>
Val(o) == o[1]

Min(a, b) == IF a <= b THEN a ELSE b

Byte == {0, 1}
\* what the caller's buffer holds before readinto: no byte the server serves
Stale == Cardinality(Byte)

Contexts == {"zero", "dirty"}

\* url.path and what the code appends to it, as a sequence of parts
url_path == <<"/images/ticket">>

-----------------------------------------------------------------------------
(* The server: an image of cells.  A cell is unallocated (a hole, reads   *)
(* as zero) or allocated; it is dirty once written in this session.       *)

HoleCell == [data |-> 0, alloc |-> FALSE, dirty |-> FALSE]
DataCell(b) == [data |-> b, alloc |-> TRUE, dirty |-> FALSE]
WrittenCell(b) == [data |-> b, alloc |-> TRUE, dirty |-> TRUE]

\* an image of n cells: k holes, then data
HolesThenData(n, k) == [i \in 1..n |-> IF i <= k THEN HoleCell ELSE DataCell(1)]

ImageBytes(img, u) == Len(img) * u

\* The extent record the server reports for one cell.
CellExtent(cell, start, u, context) ==
    IF context = "zero"
    THEN [start |-> start, length |-> u,
          zero |-> (~cell.alloc \/ cell.data = 0), hole |-> ~cell.alloc]
    ELSE [start |-> start, length |-> u, dirty |-> cell.dirty]

SameFlags(a, b, context) ==
    IF context = "zero" THEN a.zero = b.zero /\ a.hole = b.hole
    ELSE a.dirty = b.dirty

\* GET <path>/extents?context=<context>: the cells merged into runs of equal flags.
RECURSIVE SrvExtentsFrom(_, _, _, _, _)
SrvExtentsFrom(img, u, context, i, acc) ==
    IF i > Len(img) THEN acc
    ELSE LET e == CellExtent(img[i], (i - 1) * u, u, context)
             n == Len(acc)
         IN IF n > 0 /\ SameFlags(acc[n], e, context)
            THEN SrvExtentsFrom(img, u, context, i + 1,
                     [acc EXCEPT ![n].length = @ + u])
            ELSE SrvExtentsFrom(img, u, context, i + 1, Append(acc, e))

SrvExtents(img, u, context) == SrvExtentsFrom(img, u, context, 1, <<>>)

\* A byte range first..last the server can serve or store (u = 1).
ValidRange(img, first, last_) ==
    0 <= first /\ first <= last_ /\ last_ < Len(img)

SrvRead(img, first, last_) == [i \in 1..(last_ - first + 1) |-> img[first + i].data]

SrvWrite(img, first, data) ==
    [i \in 1..Len(img) |->
        IF first < i /\ i <= first + Len(data)
        THEN WrittenCell(data[i - first]) ELSE img[i]]

SrvZero(img, offset, n) ==
    [i \in 1..Len(img) |->
        IF offset < i /\ i <= offset + n THEN WrittenCell(0) ELSE img[i]]

\* A response: status line, content-length header, body (bytes or decoded
\* JSON), length of a diagnostic text body, whether json.loads accepts the
\* body, and the size of the pieces in which the socket delivers the body.
Response(status, clen, body, text) ==
    [status |-> status, clen |-> clen, body |-> body, text |-> text, json |-> TRUE,
     piece |-> 1]

\* length of the short diagnostic of an honest server refusing a request
ShortText == 20
\* a long diagnostic (a traceback page), longer than the client keeps
LongText == DiagLimit + 88

ServerError(text) == Response(500, text, <<>>, text)

\* A request as put on the wire.
Request(method, path, range, body, via) ==
    [method |-> method, path |-> path, range |-> range, body |-> body, via |-> via]

IsExtentsPath(path) == Len(path) = 3 /\ path[2] = "/extents?context="

PathContext(path) == path[3]

\* What an honest server answers, and the image afterwards.
Honest(req, img, u) ==
    CASE req.method = "GET" /\ IsExtentsPath(req.path) ->
            [res |-> Response(OK, 0, SrvExtents(img, u, PathContext(req.path)), 0),
             image |-> img]
      [] req.method = "GET" /\ req.range = <<>> ->
            \* the whole image; the model never reads this body
            [res |-> Response(OK, ImageBytes(img, u), <<>>, 0), image |-> img]
      [] req.method = "GET" ->
            IF u = 1 /\ ValidRange(img, req.range[1], req.range[2])
            THEN [res |-> Response(PARTIAL_CONTENT, req.range[2] - req.range[1] + 1,
                                   SrvRead(img, req.range[1], req.range[2]), 0),
                  image |-> img]
            ELSE [res |-> Response(416, ShortText, <<>>, ShortText), image |-> img]
      [] req.method = "PUT" ->
            IF u = 1 /\ ValidRange(img, req.range[1], req.range[2])
                     /\ Len(req.body) = req.range[2] - req.range[1] + 1
            THEN [res |-> Response(OK, 0, <<>>, 0),
                  image |-> SrvWrite(img, req.range[1], req.body)]
            ELSE [res |-> Response(400, ShortText, <<>>, ShortText), image |-> img]
      [] req.method = "PATCH" ->
            LET msg == req.body[1] IN
            IF msg.op = "flush"
            THEN [res |-> Response(OK, 0, <<>>, 0), image |-> img]
            ELSE IF u = 1 /\ 0 <= msg.offset /\ 0 <= msg.size
                          /\ msg.offset + msg.size <= Len(img)
                 THEN [res |-> Response(OK, 0, <<>>, 0),
                       image |-> SrvZero(img, msg.offset, msg.size)]
                 ELSE [res |-> Response(400, ShortText, <<>>, ShortText), image |-> img]
      [] OTHER -> [res |-> ServerError(ShortText), image |-> img]

\* The faults of the environment.  "none" is the honest answer.
\*   status   a 500 with a long diagnostic, the request has no effect
\*   clen     the right body under a content-length one too large
\*   eof      the connection ends one byte before the body is complete
\*   404      the server does not know the extents context
\*   badjson  a 200 whose body is not JSON
\*   nokey    a 200 whose last extent record lacks the flag of the context
\*   empty    a 200 whose body is the empty list
\*   rogue    a 200 listing the extents in reverse order
\*   nolen    a 200 without content-length header
DataFaults == {"none", "status"}
GetFaults == {"none", "status", "clen", "eof"}
ExtentsFaults == {"none", "status", "404", "badjson", "nokey", "empty", "rogue"}
HeadFaults == {"none", "status", "nolen"}

Reverse(s) == [i \in 1..Len(s) |-> s[Len(s) + 1 - i]]

NoHeader == -1 - DiagLimit

\* the answer h of an honest server, or what the fault f makes of it
Faulty(f, h, img) ==
    CASE f = "none" -> h
      [] f = "status" -> [res |-> ServerError(LongText), image |-> img]
      [] f = "clen" -> [h EXCEPT !.res.clen = @ + 1]
      [] f = "eof" -> [h EXCEPT !.res.body = SubSeq(@, 1, Len(@) - 1)]
      [] f = "404" -> [res |-> Response(NOT_FOUND, ShortText, <<>>, ShortText), image |-> img]
      [] f = "badjson" -> [h EXCEPT !.res.body = <<>>, !.res.json = FALSE]
      [] f = "nokey" -> [h EXCEPT !.res.body = [i \in 1..Len(@) |->
                            IF i < Len(@) THEN @[i]
                            ELSE [start |-> @[i].start, length |-> @[i].length]]]
      [] f = "empty" -> [h EXCEPT !.res.body = <<>>]
      [] f = "rogue" -> [h EXCEPT !.res.body = Reverse(@)]
      [] f = "nolen" -> [h EXCEPT !.res.clen = NoHeader]

Serve(f, req, img, u) == Faulty(f, Honest(req, img, u), img)

-----------------------------------------------------------------------------
(* The OPTIONS probe.  A body is text that json.loads rejects, or a JSON  *)
(* value: an object with an optional "features" member and an optional    *)
(* "unix_socket" member, or a value that is not an object.                *)

UnixPath == "\\0/org/ovirt/imageio"

NotJson == [json |-> FALSE]
JsonValue(type, features, unix_socket) ==
    [json |-> TRUE, type |-> type, features |-> features, unix_socket |-> unix_socket]

\* the "features" member: absent, or a JSON value of some type; items is what
\* iterating the Python value yields (list items, dict keys, the characters
\* of a string)
Absent == [type |-> "absent", items |-> <<>>]
Features(type, items) == [type |-> type, items |-> items]
\* a list item that is itself a list: not hashable
Unhashable == "[]"

FeatureLists ==
    { <<>>, <<"zero">>, <<"extents", "zero">>, <<"zero", "flush">>,
      <<"extents", "zero", "flush">> }

\* bodies of a server that implements the protocol
GoodBodies ==
    { JsonValue("object", Features("array", fl), us) :
        fl \in FeatureLists, us \in {"", UnixPath} }

\* bodies that are not a well-formed capability map
MalformedBodies ==
    { NotJson,
      JsonValue("array", Absent, ""),
      JsonValue("null", Absent, ""),
      JsonValue("object", Features("number", <<>>), UnixPath),
      JsonValue("object", Features("null", <<>>), ""),
      JsonValue("object", Features("string", <<"z", "e", "r", "o">>), UnixPath),
      JsonValue("object", Features("object", <<"extents">>), ""),
      JsonValue("object", Features("array", <<Unhashable>>), ""),
      JsonValue("object", Features("array", <<"unix_socket">>), UnixPath) }

OptionsResponse(status, body, text) == [status |-> status, body |-> body, text |-> text]

\* the empty options dict, read through options.get(...)
NoOptions == [extents |-> FALSE, zero |-> FALSE, flush |-> FALSE, unix_socket |-> ""]

\* json.loads(body.decode("utf-8"))
json_loads(body) ==
    IF body.json THEN [err |-> "", value |-> body] ELSE [err |-> "ValueError", value |-> body]

\* options.pop("features", []): defined on a dict only
pop_features(value) ==
    CASE value.type = "object" ->
            [err |-> "",
             features |-> IF value.features.type = "absent"
                          THEN Features("array", <<>>) ELSE value.features]
      [] value.type = "array" -> [err |-> "TypeError", features |-> Absent]
      [] OTHER -> [err |-> "AttributeError", features |-> Absent]

\* options[feature] = True, for each feature in turn
RECURSIVE flatten(_, _, _)
flatten(options, items, i) ==
    IF i > Len(items) THEN [err |-> "", options |-> options]
    ELSE IF items[i] = Unhashable THEN [err |-> "TypeError", options |-> options]
    ELSE flatten(
            CASE items[i] = "extents" -> [options EXCEPT !.extents = TRUE]
              [] items[i] = "zero" -> [options EXCEPT !.zero = TRUE]
              [] items[i] = "flush" -> [options EXCEPT !.flush = TRUE]
              [] items[i] = "unix_socket" -> [options EXCEPT !.unix_socket = "True"]
              [] OTHER -> options,
            items, i + 1)

\* for feature in options.pop("features", []): options[feature] = True
flatten_features(value) ==
    LET p == pop_features(value)
        options == [NoOptions EXCEPT !.unix_socket = value.unix_socket]
    IN IF p.err # "" THEN [err |-> p.err, options |-> NoOptions]
       ELSE IF p.features.type \in {"array", "string", "object"}
            THEN flatten(options, p.features.items, 1)
            ELSE [err |-> "TypeError", options |-> NoOptions]

\* mutant: 204 is not accepted as the answer of an older proxy
_options_strict(res) ==
    IF res.status = METHOD_NOT_ALLOWED
    THEN [err |-> "", text |-> 0, options |-> NoOptions]
    ELSE IF res.status # OK
    THEN [err |-> "RuntimeError", text |-> res.text, options |-> NoOptions]
    ELSE LET loaded == json_loads(res.body) IN
         IF loaded.err = "ValueError"
         THEN [err |-> "", text |-> 0, options |-> NoOptions]
         ELSE LET f == flatten_features(loaded.value) IN
              [err |-> f.err, text |-> 0, options |-> f.options]

\* Backend._options, given the response to the OPTIONS request
_options(res) ==
    IF res.status = METHOD_NOT_ALLOWED
    THEN [err |-> "", text |-> 0, options |-> NoOptions]
    ELSE IF res.status = NO_CONTENT
    THEN [err |-> "", text |-> 0, options |-> NoOptions]
    ELSE IF res.status # OK
    THEN [err |-> "RuntimeError", text |-> res.text, options |-> NoOptions]
    ELSE LET loaded == json_loads(res.body) IN
         IF loaded.err = "ValueError"
         THEN [err |-> "", text |-> 0, options |-> NoOptions]
         ELSE LET f == flatten_features(loaded.value) IN
              [err |-> f.err, text |-> 0, options |-> f.options]

\* mutant: the unix connection replaces the TLS one although connect() failed
_optimize_connection_unchecked(unix_socket, local, reachable, socks) ==
    IF ~(local /\ unix_socket # "")
    THEN [con |-> "https", sock |-> socks, attempts |-> 0]
    ELSE [con |-> "unix", sock |-> [https |-> FALSE, unix |-> reachable], attempts |-> 1]

\* mutant: the unix socket is tried for remote peers as well
_optimize_connection_remote(unix_socket, local, reachable, socks) ==
    IF unix_socket = ""
    THEN [con |-> "https", sock |-> socks, attempts |-> 0]
    ELSE IF unix_socket = UnixPath /\ reachable
         THEN [con |-> "unix", sock |-> [https |-> FALSE, unix |-> TRUE], attempts |-> 1]
         ELSE [con |-> "https", sock |-> [socks EXCEPT !.unix = FALSE], attempts |-> 1]

\* mutant: the TLS connection is replaced without being closed
_optimize_connection_keep_tls(unix_socket, local, reachable, socks) ==
    IF ~(local /\ unix_socket # "")
    THEN [con |-> "https", sock |-> socks, attempts |-> 0]
    ELSE IF unix_socket = UnixPath /\ reachable
         THEN [con |-> "unix", sock |-> [socks EXCEPT !.unix = TRUE], attempts |-> 1]
         ELSE [con |-> "https", sock |-> [socks EXCEPT !.unix = FALSE], attempts |-> 1]

\* Backend._optimize_connection: the connection objects after the attempt.
\* local is what HTTPSConnection.is_local() returns, reachable whether
\* con.connect() on the socket path succeeds.
_optimize_connection(unix_socket, local, reachable, socks) ==
    IF ~(local /\ unix_socket # "")
    THEN [con |-> "https", sock |-> socks, attempts |-> 0]
    ELSE IF unix_socket = UnixPath /\ reachable
         THEN [con |-> "unix", sock |-> [https |-> FALSE, unix |-> TRUE], attempts |-> 1]
         ELSE [con |-> "https", sock |-> [socks EXCEPT !.unix = FALSE], attempts |-> 1]

\* mutant: the connection is not closed when the probe fails
Backend_init_leaky(connect, res, local, reachable) ==
    IF ~connect
    THEN [err |-> "ConnectionError", text |-> 0, options |-> NoOptions, con |-> "https",
          sock |-> [https |-> FALSE, unix |-> FALSE], attempts |-> 0, reqs |-> <<>>]
    ELSE LET o == _options(res)
             req == Request("OPTIONS", url_path, <<>>, <<>>, "https")
             opened == [https |-> TRUE, unix |-> FALSE]
         IN IF o.err # ""
            THEN [err |-> o.err, text |-> o.text, options |-> NoOptions, con |-> "https",
                  sock |-> opened, attempts |-> 0, reqs |-> <<req>>]
            ELSE LET c == _optimize_connection(o.options.unix_socket, local, reachable, opened)
                 IN [err |-> "", text |-> 0, options |-> o.options, con |-> c.con,
                     sock |-> c.sock, attempts |-> c.attempts, reqs |-> <<req>>]

\* Backend.__init__, given the environment: whether the TLS connection can
\* be established, the response to OPTIONS, whether the peer is local and
\* whether the unix socket accepts connections.
Backend_init(connect, res, local, reachable) ==
    IF ~connect
    THEN [err |-> "ConnectionError", text |-> 0, options |-> NoOptions, con |-> "https",
          sock |-> [https |-> FALSE, unix |-> FALSE], attempts |-> 0, reqs |-> <<>>]
    ELSE LET o == _options(res)
             req == Request("OPTIONS", url_path, <<>>, <<>>, "https")
             opened == [https |-> TRUE, unix |-> FALSE]
         IN IF o.err # ""
            THEN [err |-> o.err, text |-> o.text, options |-> NoOptions, con |-> "https",
                  sock |-> [https |-> FALSE, unix |-> FALSE], attempts |-> 0,
                  reqs |-> <<req>>]
            ELSE LET c == _optimize_connection(o.options.unix_socket, local, reachable, opened)
                 IN [err |-> "", text |-> 0, options |-> o.options, con |-> c.con,
                     sock |-> c.sock, attempts |-> c.attempts, reqs |-> <<req>>]

-----------------------------------------------------------------------------
(* The private helpers of Backend, each given the response it receives.   *)

\* Backend._get: "bytes={}-{}".format(self._position, self._position + length - 1),
\* the first and last byte asked for
range_header(position, length) == <<position, position + length - 1>>

\* mutant: the content-range starts one byte late
content_range_late(position, length) == <<position + 1, position + length>>

\* Backend._put_header: "bytes {}-{}/*".format(self._position,
\* self._position + length - 1), the first and last byte sent
content_range(position, length) == <<position, position + length - 1>>

\* mutant: the content-length header is not compared with the length asked for
_get_unchecked(res, length) ==
    IF res.status # PARTIAL_CONTENT
    THEN [err |-> "RuntimeError", text |-> Min(res.text, DiagLimit)]
    ELSE [err |-> "", text |-> 0]

\* Backend._get after getresponse(): the checks on status and content-length
_get(res, length) ==
    IF res.status # PARTIAL_CONTENT
    THEN [err |-> "RuntimeError", text |-> Min(res.text, DiagLimit)]
    ELSE IF res.clen # length
         THEN [err |-> "RuntimeError", text |-> 0]
         ELSE [err |-> "", text |-> 0]

\* Backend._read_all: the loop, pos bytes copied so far.  res.readinto
\* returns at most res.piece bytes, and 0 once the body has ended.
RECURSIVE read_loop(_, _, _)
read_loop(res, view, pos) ==
    IF pos < Len(view)
    THEN LET n == Min(res.piece, Min(Len(res.body) - pos, Len(view) - pos)) IN
         IF n = 0
         THEN [err |-> "RuntimeError", buf |-> view]
         ELSE read_loop(res,
                  [i \in 1..Len(view) |->
                      IF pos < i /\ i <= pos + n THEN res.body[i] ELSE view[i]],
                  pos + n)
    ELSE [err |-> "", buf |-> view]

\* mutant: one res.readinto call, whatever it returns
_read_all_once(res, b) ==
    [err |-> "",
     buf |-> [i \in 1..Len(b) |->
                 IF i <= Min(res.piece, Len(res.body)) THEN res.body[i] ELSE b[i]]]

_read_all(res, b) == read_loop(res, b, 0)

\* mutant: ?flush=n is sent to the servers that have no flush
put_path_inverted(can_flush) == IF can_flush THEN url_path ELSE url_path \o <<"?flush=n">>

\* mutant: ?flush=n is never sent
put_path_plain(can_flush) == url_path

\* Backend._put_header: the request path
put_path(can_flush) == IF can_flush THEN url_path \o <<"?flush=n">> ELSE url_path

\* mutant: the server is asked to flush when it has flush, and not otherwise
zero_msg_flush_inverted(position, length, can_flush) ==
    [op |-> "zero", offset |-> position, size |-> length, flush |-> can_flush]

\* Backend.zero: the PATCH message
zero_msg(position, length, can_flush) ==
    [op |-> "zero", offset |-> position, size |-> length, flush |-> ~can_flush]

flush_msg == [op |-> "flush"]

\* Backend.write and Backend._patch after getresponse()
check_ok(res) ==
    IF res.status # OK
    THEN [err |-> "RuntimeError", text |-> Min(res.text, DiagLimit)]
    ELSE [err |-> "", text |-> 0]

\* image.ZeroExtent(start, length, zero): hole is not given and stays False
ZeroExtent(start, length, zero) ==
    [start |-> start, length |-> length, zero |-> zero, hole |-> FALSE]

\* image.DirtyExtent(start, length, dirty)
DirtyExtent(start, length, dirty) ==
    [start |-> start, length |-> length, dirty |-> dirty]

\* mutant: start and length change places
decode_extent_swapped(ext, context) ==
    IF context = "zero"
    THEN ZeroExtent(ext.length, ext.start, ext[context])
    ELSE DirtyExtent(ext.length, ext.start, ext[context])

\* cls(ext["start"], ext["length"], ext[context])
decode_extent(ext, context) ==
    IF context = "zero"
    THEN ZeroExtent(ext.start, ext.length, ext[context])
    ELSE DirtyExtent(ext.start, ext.length, ext[context])

\* mutant: 404 is an error status like any other
_get_extents_generic(res, context) ==
    IF res.status # OK
    THEN [err |-> "RuntimeError", text |-> Min(res.text, DiagLimit), list |-> <<>>]
    ELSE IF ~res.json
    THEN [err |-> "ValueError", text |-> 0, list |-> <<>>]
    ELSE IF \E i \in 1..Len(res.body) : context \notin DOMAIN res.body[i]
    THEN [err |-> "KeyError", text |-> 0, list |-> <<>>]
    ELSE [err |-> "", text |-> 0,
          list |-> [i \in 1..Len(res.body) |-> decode_extent(res.body[i], context)]]

\* Backend._get_extents after res.read(): list(self._get_extents(context))
_get_extents(res, context) ==
    IF res.status = NOT_FOUND
    THEN [err |-> "UnsupportedOperation", text |-> Min(res.text, DiagLimit), list |-> <<>>]
    ELSE IF res.status # OK
    THEN [err |-> "RuntimeError", text |-> Min(res.text, DiagLimit), list |-> <<>>]
    ELSE IF ~res.json
    THEN [err |-> "ValueError", text |-> 0, list |-> <<>>]
    ELSE IF \E i \in 1..Len(res.body) : context \notin DOMAIN res.body[i]
    THEN [err |-> "KeyError", text |-> 0, list |-> <<>>]
    ELSE [err |-> "", text |-> 0,
          list |-> [i \in 1..Len(res.body) |-> decode_extent(res.body[i], context)]]

\* Backend._emulate_head after getresponse()
_emulate_head(res) ==
    IF res.status # OK
    THEN [err |-> "RuntimeError", text |-> Min(res.text, DiagLimit), size |-> 0,
          close |-> FALSE]
    ELSE IF res.clen = NoHeader
    THEN [err |-> "TypeError", text |-> 0, size |-> 0, close |-> FALSE]
    ELSE [err |-> "", text |-> 0, size |-> res.clen, close |-> TRUE]

\* mutant: the start of the last extent is taken for the size
extent_end_start(ext) == ext.start

\* last.start + last.length
extent_end(ext) == ext.start + ext.length

-----------------------------------------------------------------------------
(* The public methods: what one call does to the Backend and the server,  *)
(* given the fault f the environment chose for the request of the call.   *)

\* self._con.request(...) opens the socket of the active connection
Connected == [sock EXCEPT ![_con] = TRUE]

\* a call that sends nothing and changes nothing
Nothing ==
    [err |-> "", text |-> 0, ret |-> 0, out |-> <<>>, position |-> _position,
     size |-> _size, extents |-> _extents, sock |-> sock, image |-> image,
     reqs |-> <<>>, status |-> 0, clen |-> 0, okctx |-> "", buf |-> <<>>,
     closes |-> 0, logged |-> <<>>]

\* a call that has sent req and received res
Sent(req, res) ==
    [Nothing EXCEPT !.sock = Connected, !.reqs = <<req>>, !.status = res.status,
                    !.clen = res.clen]

\* "{}/extents?context={}".format(self.url.path, context)
ExtentsPath(context) == url_path \o <<"/extents?context=", context>>

ExtentsRequest(context) == Request("GET", ExtentsPath(context), <<>>, <<>>, _con)

\* mutant: a failed query leaves an empty list in the cache
fill_extents_on_error(context, sent, g) ==
    IF g.err # ""
    THEN [sent EXCEPT !.err = g.err, !.text = g.text,
                      !.extents = [_extents EXCEPT ![context] = Some(<<>>)]]
    ELSE [sent EXCEPT
              !.out = g.list,
              !.extents = [_extents EXCEPT ![context] = Some(g.list)],
              !.okctx = context]

\* self._extents[context] = list(self._get_extents(context)), g being what
\* _get_extents makes of the response
fill_extents(context, sent, g) ==
    IF g.err # ""
    THEN [sent EXCEPT !.err = g.err, !.text = g.text]
    ELSE [sent EXCEPT
              !.out = g.list,
              !.extents = [_extents EXCEPT ![context] = Some(g.list)],
              !.okctx = context]

received_extents(context, req, res) ==
    fill_extents(context, Sent(req, res), _get_extents(res, context))

query_extents(context, req, f) ==
    received_extents(context, req, Serve(f, req, image, unit).res)

\* mutant: the cache is filled but never consulted
cached_extents_uncached(context, f) ==
    query_extents(context, ExtentsRequest(context), f)

\* Backend.extents with extent capability: if context not in self._extents,
\* fill it from the server; then yield the cached list
cached_extents(context, f) ==
    IF _extents[context] = None
    THEN query_extents(context, ExtentsRequest(context), f)
    ELSE [Nothing EXCEPT !.out = Val(_extents[context])]

\* Backend.size with extent capability: last = list(self.extents("zero"))[-1];
\* self._size = last.start + last.length
size_from_extents(e) ==
    IF e.err # "" THEN e
    ELSE IF e.out = <<>>
         THEN [e EXCEPT !.err = "IndexError", !.out = <<>>]
         ELSE LET n == extent_end(e.out[Len(e.out)]) IN
              [e EXCEPT !.size = Some(n), !.ret = n, !.out = <<>>]

\* mutant: the connection is left open after the emulated HEAD
emulated_size_open(sent, h) ==
    IF h.err # ""
    THEN [sent EXCEPT !.err = h.err, !.text = h.text]
    ELSE [sent EXCEPT !.size = Some(h.size), !.ret = h.size]

\* Backend.size without extent capability: self._size = self._emulate_head(),
\* h being what _emulate_head makes of the response; the connection is closed
emulated_size(sent, h) ==
    IF h.err # ""
    THEN [sent EXCEPT !.err = h.err, !.text = h.text]
    ELSE [sent EXCEPT !.size = Some(h.size), !.ret = h.size,
                      !.sock = [sock EXCEPT ![_con] = FALSE]]

received_head(req, res) == emulated_size(Sent(req, res), _emulate_head(res))

query_head(req, f) == received_head(req, Serve(f, req, image, unit).res)

\* mutant: the size is resolved again on every call
size_call_uncached(f) ==
    IF _can_extents
    THEN size_from_extents(cached_extents("zero", f))
    ELSE query_head(Request("GET", url_path, <<>>, <<>>, _con), f)

\* mutant: size() asks the server itself and leaves the cache alone
size_call_direct(f) ==
    IF _size = None
    THEN IF _can_extents
         THEN [size_from_extents(query_extents("zero", ExtentsRequest("zero"), f))
                  EXCEPT !.extents = _extents]
         ELSE query_head(Request("GET", url_path, <<>>, <<>>, _con), f)
    ELSE [Nothing EXCEPT !.ret = Val(_size)]

\* Backend.size
size_call(f) ==
    IF _size = None
    THEN IF _can_extents
         THEN size_from_extents(cached_extents("zero", f))
         ELSE query_head(Request("GET", url_path, <<>>, <<>>, _con), f)
    ELSE [Nothing EXCEPT !.ret = Val(_size)]

\* mutant: the whole image is reported as zero
whole_image_extent_zero(z) ==
    IF z.err # "" THEN z
    ELSE [z EXCEPT !.out = <<ZeroExtent(0, z.ret, TRUE)>>, !.ret = 0]

\* Backend.extents without extent capability, context "zero":
\* yield image.ZeroExtent(0, self.size(), False)
whole_image_extent(z) ==
    IF z.err # "" THEN z
    ELSE [z EXCEPT !.out = <<ZeroExtent(0, z.ret, FALSE)>>, !.ret = 0]

\* mutant: the context is validated only when the server has extents
extents_call_late_check(context, f) ==
    IF ~_can_extents
    THEN IF context = "zero"
         THEN whole_image_extent(size_call(f))
         ELSE [Nothing EXCEPT !.err = "UnsupportedOperation"]
    ELSE IF context \notin {"zero", "dirty"}
    THEN [Nothing EXCEPT !.err = "RuntimeError"]
    ELSE cached_extents(context, f)

\* mutant: without extent capability "dirty" gets the default of "zero"
extents_call_default(context, f) ==
    IF context \notin {"zero", "dirty"}
    THEN [Nothing EXCEPT !.err = "RuntimeError"]
    ELSE IF ~_can_extents
    THEN whole_image_extent(size_call(f))
    ELSE cached_extents(context, f)

\* Backend.extents
extents_call(context, f) ==
    IF context \notin {"zero", "dirty"}
    THEN [Nothing EXCEPT !.err = "RuntimeError"]
    ELSE IF ~_can_extents
    THEN IF context = "zero"
         THEN whole_image_extent(size_call(f))
         ELSE [Nothing EXCEPT !.err = "UnsupportedOperation"]
    ELSE cached_extents(context, f)

\* mutant: the offset is taken back from the end
seek_end_back(z, n) ==
    IF z.err # "" THEN z
    ELSE [z EXCEPT !.position = z.ret - n, !.ret = z.ret - n]

\* Backend.seek with os.SEEK_END: self._position = self.size() + n
seek_end(z, n) ==
    IF z.err # "" THEN z
    ELSE [z EXCEPT !.position = z.ret + n, !.ret = z.ret + n]

\* Backend.seek
seek_call(n, how, f) ==
    CASE how = SEEK_SET -> [Nothing EXCEPT !.position = n, !.ret = n]
      [] how = SEEK_CUR -> [Nothing EXCEPT !.position = _position + n,
                                           !.ret = _position + n]
      [] how = SEEK_END -> seek_end(size_call(f), n)

\* Backend.readinto; b is the caller's buffer, piece the size of the partial reads
readinto_call(b, piece, f) ==
    LET length == Len(b)
        req == Request("GET", url_path, range_header(_position, length), <<>>, _con)
        s == Serve(f, req, image, unit)
        res == [s.res EXCEPT !.piece = piece]
        g == _get(res, length)
        sent == [Sent(req, res) EXCEPT !.buf = b]
    IN IF g.err # ""
       THEN [sent EXCEPT !.err = g.err, !.text = g.text]
       ELSE LET r == _read_all(res, b) IN
            IF r.err # ""
            THEN [sent EXCEPT !.err = r.err, !.buf = r.buf]
            ELSE [sent EXCEPT !.buf = r.buf, !.position = _position + length,
                              !.ret = length]

\* Backend.write
write_call(b, f) ==
    LET length == Len(b)
        req == Request("PUT", put_path(_can_flush), content_range(_position, length), b,
                       _con)
        s == Serve(f, req, image, unit)
        c == check_ok(s.res)
        sent == [Sent(req, s.res) EXCEPT !.image = s.image]
    IN IF c.err # ""
       THEN [sent EXCEPT !.err = c.err, !.text = c.text]
       ELSE [sent EXCEPT !.position = _position + length, !.ret = length]

\* mutant: a PATCH answered with an error is sent once more
patch_call_retry(msg, f) ==
    LET req == Request("PATCH", url_path, <<>>, <<msg>>, _con)
        s == Serve(f, req, image, unit)
        c == check_ok(s.res)
        sent == [Sent(req, s.res) EXCEPT !.image = s.image]
    IN IF c.err # ""
       THEN [sent EXCEPT !.err = c.err, !.text = c.text, !.reqs = <<req, req>>]
       ELSE sent

\* Backend._patch
patch_call(msg, f) ==
    LET req == Request("PATCH", url_path, <<>>, <<msg>>, _con)
        s == Serve(f, req, image, unit)
        c == check_ok(s.res)
        sent == [Sent(req, s.res) EXCEPT !.image = s.image]
    IN IF c.err # "" THEN [sent EXCEPT !.err = c.err, !.text = c.text] ELSE sent

\* mutant: the position stays where it was
zero_call_stuck(length, f) == patch_call(zero_msg(_position, length, _can_flush), f)

\* mutant: the position is advanced before the request is answered
zero_call_eager(length, f) ==
    LET p == patch_call(zero_msg(_position, length, _can_flush), f) IN
    IF p.err # "" THEN [p EXCEPT !.position = _position + length]
    ELSE [p EXCEPT !.position = _position + length, !.ret = length]

\* Backend.zero
zero_call(length, f) ==
    LET p == patch_call(zero_msg(_position, length, _can_flush), f) IN
    IF p.err # "" THEN p
    ELSE [p EXCEPT !.position = _position + length, !.ret = length]

\* Backend.flush
flush_call(f) == patch_call(flush_msg, f)

\* Backend.tell
tell_call == [Nothing EXCEPT !.ret = _position]

\* Backend.close
close_call == [Nothing EXCEPT !.sock = [sock EXCEPT ![_con] = FALSE], !.closes = 1]

\* Backend.close when self._con.close() raises
close_raises == [Nothing EXCEPT !.err = "OSError", !.closes = 1]

\* mutant: an error of close() is raised whatever the region did
exit_masking(t, c) ==
    IF c.err = "" THEN [c EXCEPT !.err = t] ELSE c

\* Backend.__exit__(t, v, tb), c being the outcome of self.close(); t is the
\* error the with block raised, "" for none.  __exit__ returns None, so the
\* error of the block propagates.
exit_result(t, c) ==
    IF c.err = "" THEN [c EXCEPT !.err = t]
    ELSE IF t = "" THEN c
    ELSE [c EXCEPT !.err = t, !.logged = <<"Error closing backend">>]

exit_call(t, raises) == exit_result(t, IF raises THEN close_raises ELSE close_call)

-----------------------------------------------------------------------------
(* The state machine. *)

NoCall ==
    [op |-> "", arg |-> <<>>, err |-> "", text |-> 0, ret |-> 0, out |-> <<>>,
     buf |-> <<>>, pos0 |-> 0, reqs |-> <<>>, status |-> 0, clen |-> 0, fault |-> "",
     closes |-> 0, logged |-> <<>>, open0 |-> FALSE]

NoProbe ==
    [connect |-> FALSE, status |-> 0, body |-> NotJson, local |-> FALSE,
     reachable |-> FALSE]

InitWith(images, u) ==
    /\ pc = "new"
    /\ _position = 0
    /\ _size = None
    /\ _extents = [c \in Contexts |-> None]
    /\ _can_extents = FALSE
    /\ _can_zero = FALSE
    /\ _can_flush = FALSE
    /\ _con = "https"
    /\ sock = [https |-> FALSE, unix |-> FALSE]
    /\ image \in images
    /\ unit = u
    /\ closed = FALSE
    /\ probe = NoProbe
    /\ unixAttempts = 0
    /\ last = NoCall
    /\ extOk = [c \in Contexts |-> 0]
    /\ cacheFault = [c \in Contexts |-> ""]
    /\ sizeVia = ""
    /\ lastWrite = None

\* Backend(url, cafile, secure) in the environment env
Construct(env) ==
    /\ pc = "new"
    /\ LET b == Backend_init(env.connect, env.res, env.local, env.reachable) IN
       /\ pc' = IF b.err = "" THEN "open" ELSE "failed"
       /\ _can_extents' = b.options.extents
       /\ _can_zero' = b.options.zero
       /\ _can_flush' = b.options.flush
       /\ _con' = b.con
       /\ sock' = b.sock
       /\ unixAttempts' = b.attempts
       /\ probe' = [connect |-> env.connect, status |-> env.res.status,
                    body |-> env.res.body, local |-> env.local,
                    reachable |-> env.reachable]
       /\ last' = [NoCall EXCEPT !.op = "open", !.err = b.err, !.text = b.text,
                                 !.reqs = b.reqs,
                                 !.status = IF env.connect THEN env.res.status ELSE 0,
                                 !.clen = IF env.connect THEN env.res.text ELSE 0]
    /\ UNCHANGED <<_position, _size, _extents, image, unit, closed, extOk,
                   cacheFault, sizeVia, lastWrite>>

\* the outcome o of a call becomes the next state
Commit(op, arg, o, f) ==
    /\ pc = "open"
    /\ o.position \in Positions(unit)
    /\ o.reqs # <<>> \/ f = "none"
    /\ _position' = o.position
    /\ _size' = o.size
    /\ _extents' = o.extents
    /\ sock' = o.sock
    /\ image' = o.image
    /\ last' = [op |-> op, arg |-> arg, err |-> o.err, text |-> o.text, ret |-> o.ret,
                out |-> o.out, buf |-> o.buf, pos0 |-> _position, reqs |-> o.reqs,
                status |-> o.status, clen |-> o.clen,
                fault |-> IF o.reqs = <<>> THEN "" ELSE f,
                closes |-> o.closes, logged |-> o.logged, open0 |-> sock[_con]]
    /\ extOk' = IF o.okctx = "" THEN extOk
                ELSE [extOk EXCEPT ![o.okctx] = Min(@ + 1, 2)]
    /\ cacheFault' = IF o.okctx = "" THEN cacheFault
                     ELSE [cacheFault EXCEPT ![o.okctx] = f]
    /\ sizeVia' = IF _size # None \/ o.size = None THEN sizeVia
                  ELSE IF _can_extents
                       THEN IF cacheFault'["zero"] = "none" THEN "extents" ELSE "fault"
                       ELSE IF f = "none" THEN "head" ELSE "fault"
    /\ UNCHANGED <<pc, _can_extents, _can_zero, _can_flush, _con, unit, probe,
                   unixAttempts>>

Env(connect, res, local, reachable) ==
    [connect |-> connect, res |-> res, local |-> local, reachable |-> reachable]

Buffers(n) == UNION { [1..k -> Byte] : k \in 0..n }
Blank(n) == [i \in 1..n |-> Stale]
SizeFaults == IF _can_extents THEN ExtentsFaults ELSE HeadFaults

open_(envs) == \E env \in envs : Construct(env)

readinto_(lengths, faults) ==
    \E n \in lengths, piece \in {1, MaxLen}, f \in faults :
        /\ piece = 1 \/ f \in {"none", "eof"}
        /\ Commit("readinto", <<n>>, readinto_call(Blank(n), piece, f), f)
        /\ UNCHANGED <<closed, lastWrite>>

write_(buffers, faults) ==
    \E b \in buffers, f \in faults :
        LET o == write_call(b, f) IN
        /\ Commit("write", <<Len(b)>>, o, f)
        /\ lastWrite' = IF o.err = "" THEN Some([off |-> _position, data |-> b])
                        ELSE lastWrite
        /\ UNCHANGED closed

zero_(lengths, faults) ==
    \E n \in lengths, f \in faults :
        LET o == zero_call(n, f) IN
        /\ Commit("zero", <<n>>, o, f)
        /\ lastWrite' = IF o.err = "" THEN None ELSE lastWrite
        /\ UNCHANGED closed

flush_(faults) ==
    \E f \in faults :
        /\ Commit("flush", <<>>, flush_call(f), f)
        /\ UNCHANGED <<closed, lastWrite>>

extents_(contexts, faults) ==
    \E context \in contexts, f \in faults :
        /\ f \in SizeFaults
        /\ Commit("extents", <<context>>, extents_call(context, f), f)
        /\ UNCHANGED <<closed, lastWrite>>

seek_(offsets, hows, faults) ==
    \E n \in offsets, how \in hows, f \in faults :
        /\ f \in SizeFaults
        /\ Commit("seek", <<n, how>>, seek_call(n, how, f), f)
        /\ UNCHANGED <<closed, lastWrite>>

size_(faults) ==
    \E f \in faults :
        /\ f \in SizeFaults
        /\ Commit("size", <<>>, size_call(f), f)
        /\ UNCHANGED <<closed, lastWrite>>

tell ==
    /\ Commit("tell", <<>>, tell_call, "none")
    /\ UNCHANGED <<closed, lastWrite>>

close ==
    /\ Commit("close", <<>>, close_call, "none")
    /\ closed' = TRUE
    /\ UNCHANGED lastWrite

\* leaving "with Backend(...) as b:"; the block raised t, or nothing
exit_(errors, raising) ==
    \E t \in errors, raises \in raising :
        /\ Commit("exit", <<t, raises>>, exit_call(t, raises), "none")
        /\ closed' = (closed \/ ~raises)
        /\ UNCHANGED lastWrite

-----------------------------------------------------------------------------
(* Spec: the data path.  Reads, writes, zeroes, flushes and seeks, against *)
(* an older server and a current one.                                      *)

AllFaults == GetFaults \cup ExtentsFaults \cup HeadFaults

\* an older server (405) reached over TLS, and one that has zero and flush,
\* reached over its unix socket
DataServers ==
    { Env(TRUE, OptionsResponse(METHOD_NOT_ALLOWED, NotJson, 0), FALSE, FALSE),
      Env(TRUE, OptionsResponse(OK, JsonValue("object",
              Features("array", <<"zero", "flush">>), UnixPath), 0), TRUE, TRUE) }

open == open_(DataServers)
readinto == readinto_(0..MaxLen, GetFaults)
write == write_(Buffers(MaxLen), DataFaults)
zero == zero_(0..MaxLen, DataFaults)
flush == flush_(DataFaults)
seek == seek_(SeekOffsets, {SEEK_SET, SEEK_CUR}, {"none"})

\* the image when the Backend is opened: MaxImage bytes, a hole then data
DataImages == { HolesThenData(MaxImage, 1) }

Init == InitWith(DataImages, 1)

Next ==
    \/ open
    \/ readinto
    \/ write
    \/ zero
    \/ flush
    \/ seek

Spec == Init /\ [][Next]_vars

-----------------------------------------------------------------------------
(* SpecOpen: construction.  Every answer to the probe, then a few calls.   *)

ProbeBodies == GoodBodies \cup MalformedBodies

\* the TLS connection fails; or the probe is answered 200 with any body; or
\* it is answered with another status
ProbeEnvs ==
    { Env(FALSE, OptionsResponse(0, NotJson, 0), FALSE, FALSE) }
    \cup { Env(TRUE, OptionsResponse(OK, body, 0), local, reachable) :
              body \in ProbeBodies, local \in BOOLEAN, reachable \in BOOLEAN }
    \cup { Env(TRUE, OptionsResponse(status, NotJson, text), local, local) :
              status \in {NO_CONTENT, METHOD_NOT_ALLOWED, 403, 500},
              text \in {ShortText, LongText}, local \in BOOLEAN }

openProbe == open_(ProbeEnvs)
readintoOpen == readinto_({1}, {"none"})
writeOpen == write_({<<1>>}, {"none"})
flushOpen == flush_({"none"})
sizeOpen == size_({"none", "status"})
exitOpen == exit_({"", "RegionError"}, BOOLEAN)

NextOpen ==
    \/ openProbe
    \/ readintoOpen
    \/ writeOpen
    \/ flushOpen
    \/ sizeOpen
    \/ close
    \/ exitOpen

SpecOpen == Init /\ [][NextOpen]_vars

-----------------------------------------------------------------------------
(* SpecExt: size and extents, against a server with extent capability and  *)
(* an older one without, while the image changes.                          *)

ExtServers ==
    { Env(TRUE, OptionsResponse(METHOD_NOT_ALLOWED, NotJson, 0), FALSE, FALSE),
      Env(TRUE, OptionsResponse(OK, JsonValue("object",
              Features("array", <<"extents", "zero", "flush">>), ""), 0), FALSE, FALSE) }

\* images of 1..MaxImage bytes, a hole then data
ExtImages == { HolesThenData(n, 1) : n \in 1..MaxImage }

InitExt == InitWith(ExtImages, 1)

openExt == open_(ExtServers)
writeExt == write_({<<1>>}, {"none"})
zeroExt == zero_({1}, {"none"})
flushExt == flush_({"none"})
extentsExt == extents_(Contexts \cup {"bogus"}, AllFaults)
sizeExt == size_(AllFaults)
seekExt == seek_({-1, 0}, {SEEK_SET, SEEK_END}, AllFaults)

NextExt ==
    \/ openExt
    \/ writeExt
    \/ zeroExt
    \/ flushExt
    \/ extentsExt
    \/ sizeExt
    \/ seekExt

SpecExt == InitExt /\ [][NextExt]_vars

-----------------------------------------------------------------------------
(* Claims checked under Spec. *)

\* C1: seek(offset), write(b), seek(offset), readinto(buffer of len(b)) on a
\* server that stores PUT data and serves GET ranges fills the buffer with
\* exactly b: whenever a read is answered honestly at the offset of the last
\* successful write and with its length, the read succeeds, returns len(b)
\* and the buffer holds b.
C1_WriteThenReadinto ==
    ( /\ last.op = "readinto"
      /\ last.fault = "none"
      /\ lastWrite # None
      /\ last.pos0 = Val(lastWrite).off
      /\ last.arg[1] = Len(Val(lastWrite).data) )
    => ( /\ last.err = ""
         /\ last.ret = Len(Val(lastWrite).data)
         /\ last.buf = Val(lastWrite).data )

\* a two-byte write at offset 0 has been read back in full
C1_Witness ==
    /\ last.op = "readinto"
    /\ last.fault = "none"
    /\ last.err = ""
    /\ lastWrite # None
    /\ last.pos0 = 0
    /\ Val(lastWrite).off = 0
    /\ Val(lastWrite).data = <<1, 0>>
    /\ last.buf = <<1, 0>>

\* C2: _position is non-negative in every reachable state, for any sequence
\* of seek, readinto, write and zero calls.
C2_PositionNonNegative == _position >= 0

\* C4: a ranged read answered 206 with a content-length different from the
\* length asked for fails with RuntimeError, the caller's buffer is untouched
\* and the position is not advanced.
C4_LengthMismatchFails ==
    ( /\ last.op = "readinto"
      /\ last.status = PARTIAL_CONTENT
      /\ last.clen # last.arg[1] )
    => ( /\ last.err = "RuntimeError"
         /\ last.buf = Blank(last.arg[1])
         /\ _position = last.pos0 )

\* the server sent the two bytes asked for under a content-length of three
C4_Witness ==
    /\ last.op = "readinto"
    /\ last.status = PARTIAL_CONTENT
    /\ last.arg[1] = 2
    /\ last.clen = 3
    /\ last.err = "RuntimeError"

-----------------------------------------------------------------------------
(* SpecPos: the position.  Every public method that reads or moves it,    *)
(* with honest answers, against a server with extent capability and an    *)
(* older one.                                                             *)

NextPos ==
    \/ open_(ExtServers)
    \/ readinto_(0..MaxLen, {"none"})
    \/ write_({[i \in 1..n |-> 1] : n \in 0..MaxLen}, {"none"})
    \/ zero_(0..MaxLen, {"none"})
    \/ flush_({"none"})
    \/ size_({"none"})
    \/ extents_({"zero"}, {"none"})
    \/ seek_(SeekOffsets, {SEEK_SET, SEEK_CUR, SEEK_END}, {"none"})
    \/ tell

SpecPos == Init /\ [][NextPos]_vars

-----------------------------------------------------------------------------
(* SpecFail: the calls that move the position, with answers that make     *)
(* them fail, against a server with extent capability and an older one.   *)

NextFail ==
    \/ open_(ExtServers)
    \/ readinto_({1, MaxLen}, GetFaults)
    \/ write_({<<1>>}, DataFaults)
    \/ zero_({1}, DataFaults)
    \/ seek_({-1, 0}, {SEEK_SET, SEEK_END}, AllFaults)

SpecFail == Init /\ [][NextFail]_vars

-----------------------------------------------------------------------------
(* SpecScenario: the image of the upload tests, IMAGE_SIZE bytes in        *)
(* clusters of CLUSTER_SIZE, unallocated except for its last cluster,      *)
(* which holds the bytes written at IMAGE_SIZE - 6.                        *)

ScenarioImage == <<HoleCell, HoleCell, DataCell(1)>>

InitScenario == InitWith({ScenarioImage}, CLUSTER_SIZE)

openScenario == open_(ExtServers)
extentsScenario == extents_(Contexts, AllFaults)
sizeScenario == size_(AllFaults)
seekScenario == seek_({0, CLUSTER_SIZE}, {SEEK_SET, SEEK_CUR, SEEK_END}, {"none"})
flushScenario == flush_({"none"})

NextScenario ==
    \/ openScenario
    \/ extentsScenario
    \/ sizeScenario
    \/ seekScenario
    \/ flushScenario

SpecScenario == InitScenario /\ [][NextScenario]_vars

-----------------------------------------------------------------------------
(* Claims checked under SpecExt. *)

\* C3: for each context at most one extents query succeeds on the wire: once
\* the result of a query is cached, no later call sends an extents request
\* for that context, the cache keeps its value, and every extents(context)
\* yields the cached sequence without a request, whatever write, zero or
\* flush calls come between.
C3_ExtentsQueriedOnce ==
    [][ \A c \in Contexts :
          /\ extOk'[c] <= 1
          /\ _extents[c] # None =>
                /\ _extents'[c] = _extents[c]
                /\ \A i \in DOMAIN last'.reqs : last'.reqs[i].path # ExtentsPath(c)
                /\ (last'.op = "extents" /\ last'.arg = <<c>>) =>
                      ( /\ last'.err = ""
                        /\ last'.reqs = <<>>
                        /\ last'.out = Val(_extents[c]) ) ]_vars

\* extents("zero") is replayed from the cache after the image has changed:
\* the server would now report another list
C3_Witness ==
    /\ last.op = "extents"
    /\ last.arg = <<"zero">>
    /\ last.err = ""
    /\ last.reqs = <<>>
    /\ _can_extents
    /\ extOk["zero"] = 1
    /\ Len(last.out) # Len(SrvExtents(image, unit, "zero"))

\* C7: once size() has returned a value, _size keeps it, and every later
\* size() returns it and sends no request, whatever calls come between.
C7_SizeResolvedOnce ==
    [][ _size # None =>
          /\ _size' = _size
          /\ last'.op = "size" =>
                ( /\ last'.err = ""
                  /\ last'.ret = Val(_size)
                  /\ last'.reqs = <<>> ) ]_vars

\* size() is answered from _size after the image has been written
C7_Witness ==
    /\ last.op = "size"
    /\ last.err = ""
    /\ last.reqs = <<>>
    /\ last.ret = Val(_size)
    /\ \E i \in DOMAIN image : image[i].dirty

\* what the other strategy computes for the image as it is now
SizeByHead == _emulate_head(Honest(Request("GET", url_path, <<>>, <<>>, _con),
                                   image, unit).res).size
SizeByExtents ==
    size_from_extents(received_extents("zero", ExtentsRequest("zero"),
                          Honest(ExtentsRequest("zero"), image, unit).res)).ret

\* C8: for the same image and an honest server, the size resolved from the
\* extents (start + length of the last extent) equals the size resolved by
\* emulation (content-length of a full-image GET).
C8_SizeStrategiesAgree ==
    /\ sizeVia = "extents" => Val(_size) = SizeByHead
    /\ sizeVia = "head" => Val(_size) = SizeByExtents

\* the size was resolved from a list of two extents
C8_Witness ==
    /\ sizeVia = "extents"
    /\ Len(Val(_extents["zero"])) = 2
    /\ Val(_size) = 2

RECURSIVE TotalLength(_)
TotalLength(list) ==
    IF list = <<>> THEN 0 ELSE Head(list).length + TotalLength(Tail(list))

\* ordered by start, non-overlapping and contiguous from 0
Contiguous(list) ==
    /\ list # <<>>
    /\ list[1].start = 0
    /\ \A i \in DOMAIN list : list[i].length > 0
    /\ \A i \in 1..(Len(list) - 1) : list[i + 1].start = list[i].start + list[i].length

\* every answer that filled _extents or _size was an honest one
HonestSoFar ==
    /\ \A c \in Contexts : cacheFault[c] \in {"", "none"}
    /\ sizeVia # "fault"

\* what size() returns if called now and answered honestly
SizeNow == IF _size # None THEN Val(_size) ELSE size_call("none").ret

-----------------------------------------------------------------------------
(* Claims checked under SpecOpen. *)

Advertised(body, name) ==
    \E i \in DOMAIN body.features.items : body.features.items[i] = name

\* C5: a probe answered 200 with a body that is not a well-formed capability
\* map leaves the Backend open with the empty capability set: no extents, no
\* zero, no flush, no unix socket.
C5_MalformedBodyOpens ==
    ( /\ pc # "new"
      /\ probe.connect
      /\ probe.status = OK
      /\ probe.body \in MalformedBodies )
    => ( /\ pc = "open"
         /\ ~_can_extents
         /\ ~_can_zero
         /\ ~_can_flush
         /\ _con = "https"
         /\ unixAttempts = 0 )

\* the server advertises a unix socket, the peer is local, and connecting to
\* the socket fails
UnixUnreachable ==
    /\ pc # "new"
    /\ probe.connect
    /\ probe.status = OK
    /\ probe.body \in GoodBodies
    /\ probe.body.unix_socket = UnixPath
    /\ probe.local
    /\ ~probe.reachable

\* C6: if the server advertises a unix socket path, the peer is local and the
\* unix socket cannot be connected, open succeeds, the capability flags are
\* those advertised, and every request is sent over the TLS connection.
C6_UnixFallback ==
    UnixUnreachable
    => ( /\ pc = "open"
         /\ _can_extents = Advertised(probe.body, "extents")
         /\ _can_zero = Advertised(probe.body, "zero")
         /\ _can_flush = Advertised(probe.body, "flush")
         /\ _con = "https"
         /\ ~sock.unix
         /\ \A i \in DOMAIN last.reqs : last.reqs[i].via = "https" )

\* a read has been served over TLS after the failed attempt
C6_Witness ==
    /\ UnixUnreachable
    /\ unixAttempts = 1
    /\ _can_flush
    /\ last.op = "readinto"
    /\ last.err = ""
    /\ last.reqs[1].via = "https"

-----------------------------------------------------------------------------
(* Claims checked under SpecScenario. *)

\* extents("zero") was answered, now or when the cache was filled, by an
\* honest server with extent capability
ScenarioAnswered ==
    /\ last.op = "extents"
    /\ last.arg = <<"zero">>
    /\ last.err = ""
    /\ _can_extents
    /\ cacheFault["zero"] = "none"
    /\ ImageBytes(image, unit) = IMAGE_SIZE

\* C10: for the IMAGE_SIZE image with a hole at offset 0 and data in its
\* last bytes, served with extent capability, extents("zero") returns two
\* contiguous extents covering the full length, the first flagged zero and
\* hole, the second flagged non-zero, with lengths summing to IMAGE_SIZE.
C10_ScenarioExtents ==
    ScenarioAnswered
    => ( /\ Len(last.out) = 2
         /\ last.out[1].start = 0
         /\ last.out[1].zero
         /\ last.out[1].hole
         /\ last.out[2].start = last.out[1].length
         /\ ~last.out[2].zero
         /\ last.out[1].length + last.out[2].length = IMAGE_SIZE )

\* C11: leaving the with block always calls close() once; the error of the
\* block, if any, is what propagates, and an error of close() is then only
\* logged; without an error of the block, the error of close() propagates.
C11_ExitKeepsRegionError ==
    last.op = "exit"
    => ( /\ last.closes = 1
         /\ last.arg[1] # "" => last.err = last.arg[1]
         /\ (last.arg[1] # "" /\ last.arg[2]) => last.logged # <<>>
         /\ (last.arg[1] = "" /\ last.arg[2]) => (last.err = "OSError" /\ last.logged = <<>>)
         /\ (last.arg[1] = "" /\ ~last.arg[2]) => last.err = "" )

\* the block raised, close() raised too: the block's error came out
C11_Witness ==
    /\ last.op = "exit"
    /\ last.arg = <<"RegionError", TRUE>>
    /\ last.err = "RegionError"
    /\ last.logged # <<>>

\* C12: if the TLS connection cannot be established, or the probe is
\* answered with a status other than 200, 204 or 405, the constructor raises
\* (ConnectionError, resp. RuntimeError), no Backend exists to call, no
\* capability is set, and no socket is left open.
C12_ProbeFailureClosesConnection ==
    ( /\ pc # "new"
      /\ ~probe.connect \/ probe.status \notin {OK, NO_CONTENT, METHOD_NOT_ALLOWED} )
    => ( /\ pc = "failed"
         /\ last.op = "open"
         /\ last.err = IF probe.connect THEN "RuntimeError" ELSE "ConnectionError"
         /\ ~sock.https
         /\ ~sock.unix
         /\ ~_can_extents /\ ~_can_zero /\ ~_can_flush )

\* the probe was answered 403 and the constructor raised
C12_Witness ==
    /\ pc = "failed"
    /\ probe.connect
    /\ probe.status = 403
    /\ last.err = "RuntimeError"
    /\ ~sock.https

\* the last call failed on a response with an error status, whose body is
\* last.clen bytes of diagnostic text
RefusedByServer ==
    /\ last.err # ""
    /\ last.status >= 400
    /\ last.fault # "clen"

\* C13: whatever the operation, the error raised for a non-success response
\* carries the first DiagLimit bytes of the response body and no more.
C13_DiagnosticTruncated ==
    RefusedByServer => last.text = Min(last.clen, DiagLimit)

-----------------------------------------------------------------------------
(* Claims about the requests of the data path, checked under Spec. *)

DeferFlushPath == url_path \o <<"?flush=n">>

\* the last call was a write, which sent one PUT
WriteSent ==
    /\ last.op = "write"
    /\ Len(last.reqs) = 1
    /\ last.reqs[1].method = "PUT"

\* C14: every write sends one PUT, whose path carries ?flush=n exactly when
\* the negotiated capabilities include flush, and is the bare resource path
\* otherwise.
C14_DeferFlushIffCanFlush ==
    last.op = "write"
    => ( /\ WriteSent
         /\ _can_flush => last.reqs[1].path = DeferFlushPath
         /\ ~_can_flush => last.reqs[1].path = url_path )

\* a write to a server without flush went to the bare path
C14_Witness ==
    /\ WriteSent
    /\ last.err = ""
    /\ ~_can_flush
    /\ last.reqs[1].path = url_path

\* C15 as stated: the PUT path has ?flush=n appended if the server lacks
\* native flush.
C15_DeferFlushWhenLacking ==
    (WriteSent /\ ~_can_flush) => last.reqs[1].path = DeferFlushPath

\* C15 amended: the PUT path has ?flush=n appended if the server has native
\* flush.
C15_DeferFlushWhenSupported ==
    (WriteSent /\ _can_flush) => last.reqs[1].path = DeferFlushPath

\* a write to a server with flush went to the path with ?flush=n
C15_Witness ==
    /\ WriteSent
    /\ last.err = ""
    /\ _can_flush
    /\ last.reqs[1].path = DeferFlushPath

\* C16: every zero(length) sends exactly one request, a PATCH to the resource
\* path whose message is op zero, offset the position before the call, size
\* length, and flush true exactly when the server has no flush capability.
C16_ZeroRequest ==
    last.op = "zero"
    => ( /\ Len(last.reqs) = 1
         /\ last.reqs[1].method = "PATCH"
         /\ last.reqs[1].path = url_path
         /\ last.reqs[1].body = <<[op |-> "zero", offset |-> last.pos0,
                                   size |-> last.arg[1], flush |-> ~_can_flush]>> )

\* one byte zeroed at offset 1 on a server without flush
C16_Witness ==
    /\ last.op = "zero"
    /\ last.err = ""
    /\ last.pos0 = 1
    /\ last.arg = <<1>>
    /\ ~_can_flush
    /\ last.reqs[1].body[1].flush

-----------------------------------------------------------------------------
(* Claims about the position, checked under SpecPos. *)

\* the first byte a data request addresses
RangeStart(req) ==
    IF req.method = "PATCH" THEN req.body[1].offset ELSE req.range[1]

\* C17: a successful readinto(buf), write(buf) or zero(length) returns the
\* length, leaves the position advanced by the length, and has sent a
\* request for the range that starts at the position before the call;
\* flush, size, extents and tell leave the position where it was.
C17_PositionAdvances ==
    /\ (last.op \in {"readinto", "write", "zero"} /\ last.err = "")
       => ( /\ last.ret = last.arg[1]
            /\ _position = last.pos0 + last.arg[1]
            /\ Len(last.reqs) = 1
            /\ RangeStart(last.reqs[1]) = last.pos0 )
    /\ last.op \in {"flush", "size", "extents", "tell"} => _position = last.pos0

\* one byte zeroed at offset 1: the position is 2
C17_Witness ==
    /\ last.op = "zero"
    /\ last.err = ""
    /\ last.pos0 = 1
    /\ last.ret = 1
    /\ _position = 2
    /\ last.reqs[1].body[1].offset = 1

\* C18: seek(n, whence) leaves the position at n for SEEK_SET, at the
\* previous position + n for SEEK_CUR and at size() + n for SEEK_END, and
\* returns it; a tell() that follows immediately returns the same value.
C18_SeekThenTell ==
    [][ /\ (last'.op = "seek" /\ last'.err = "")
           => ( /\ last'.ret = _position'
                /\ last'.arg[2] = SEEK_SET => _position' = last'.arg[1]
                /\ last'.arg[2] = SEEK_CUR => _position' = _position + last'.arg[1]
                /\ last'.arg[2] = SEEK_END =>
                      (_size' # None /\ _position' = Val(_size') + last'.arg[1]) )
        /\ (last.op = "seek" /\ last.err = "" /\ last'.op = "tell")
           => last'.ret = last.ret ]_vars

\* seek(-1, SEEK_END) on the image of two bytes returned 1
C18_Witness ==
    /\ last.op = "seek"
    /\ last.arg = <<-1, SEEK_END>>
    /\ last.err = ""
    /\ last.ret = 1
    /\ _position = 1
    /\ _size = Some(2)

-----------------------------------------------------------------------------
(* Claims about extents without extent capability, checked under SpecExt. *)

\* C19: without extent capability, extents("zero") yields exactly one
\* extent, from 0, as long as size(), flagged non-zero and non-hole; if the
\* request that resolves the size fails, the error of size() is raised and
\* nothing is yielded.
C19_ZeroExtentsDefault ==
    ( /\ last.op = "extents"
      /\ last.arg = <<"zero">>
      /\ ~_can_extents )
    => IF last.err = ""
       THEN /\ _size # None
            /\ last.out = <<[start |-> 0, length |-> Val(_size),
                             zero |-> FALSE, hole |-> FALSE]>>
       ELSE /\ last.out = <<>>
            /\ last.fault \in HeadFaults \ {"none"}

\* the default extent of an image of two bytes
C19_Witness ==
    /\ last.op = "extents"
    /\ last.arg = <<"zero">>
    /\ ~_can_extents
    /\ last.err = ""
    /\ Len(last.out) = 1
    /\ last.out[1].length = 2
    /\ ~last.out[1].zero

\* C20: without extent capability, extents("dirty") raises
\* UnsupportedOperation, yields nothing and sends no request.
C20_DirtyExtentsUnsupported ==
    ( /\ last.op = "extents"
      /\ last.arg = <<"dirty">>
      /\ ~_can_extents )
    => ( /\ last.err = "UnsupportedOperation"
         /\ last.out = <<>>
         /\ last.reqs = <<>> )

\* extents("dirty") raised on an open Backend whose size is known
C20_Witness ==
    /\ last.op = "extents"
    /\ last.arg = <<"dirty">>
    /\ ~_can_extents
    /\ last.err = "UnsupportedOperation"
    /\ _size # None

-----------------------------------------------------------------------------
(* Claims about failing extents queries, checked under SpecExt. *)

\* C21: a call whose extents query is answered 404 raises
\* UnsupportedOperation; one whose query is answered with another status
\* than 200 raises RuntimeError, which is not UnsupportedOperation.
C21_ExtentsQueryErrors ==
    (last.reqs # <<>> /\ IsExtentsPath(last.reqs[1].path))
    => ( /\ last.status = NOT_FOUND => last.err = "UnsupportedOperation"
         /\ last.status \notin {OK, NOT_FOUND} => last.err = "RuntimeError" )

\* extents("dirty") was answered 404
C21_Witness ==
    /\ last.op = "extents"
    /\ last.arg = <<"dirty">>
    /\ last.status = NOT_FOUND
    /\ last.err = "UnsupportedOperation"
    /\ IsExtentsPath(last.reqs[1].path)

\* C22: extents(context) with a context that is neither "zero" nor "dirty"
\* raises the invalid-context error (a RuntimeError), with or without extent
\* capability, sends no request and leaves the extent cache and the size as
\* they were.
C22_InvalidContext ==
    [][ (last'.op = "extents" /\ last'.arg[1] \notin Contexts)
        => ( /\ last'.err = "RuntimeError"
             /\ last'.out = <<>>
             /\ last'.reqs = <<>>
             /\ _extents' = _extents
             /\ _size' = _size ) ]_vars

\* extents("bogus") raised on a Backend with extent capability and a cache
C22_Witness ==
    /\ last.op = "extents"
    /\ last.arg = <<"bogus">>
    /\ last.err = "RuntimeError"
    /\ _can_extents
    /\ _extents["zero"] # None

-----------------------------------------------------------------------------
(* Claims about the connections, checked under SpecOpen. *)

\* C23: a probe answered 405 or 204 opens the Backend with can_extents,
\* can_zero and can_flush false; no unix socket is attempted, so the TLS
\* connection stays the active one, also for a local peer.
C23_OlderServer ==
    ( /\ pc # "new"
      /\ probe.connect
      /\ probe.status \in {METHOD_NOT_ALLOWED, NO_CONTENT} )
    => ( /\ pc = "open"
         /\ ~_can_extents /\ ~_can_zero /\ ~_can_flush
         /\ unixAttempts = 0
         /\ _con = "https"
         /\ ~sock.unix )

\* a local proxy answered 204 and a read was served afterwards
C23_Witness ==
    /\ pc = "open"
    /\ probe.status = NO_CONTENT
    /\ probe.local
    /\ last.op = "readinto"
    /\ last.err = ""
    /\ unixAttempts = 0

\* C24: once close() has returned, no connection of the Backend is open in
\* any later state, whatever is called on it afterwards.
C24_ClosedStaysClosed ==
    closed => (~sock.https /\ ~sock.unix)

\* C25: in every state after construction at most one connection is open,
\* and it is the active one: when the unix socket was connected, the unix
\* connection is active and the TLS connection closed; when the attempt
\* failed, the TLS connection is active and the unix connection closed.
C25_OneConnection ==
    pc # "new"
    => ( /\ ~(sock.https /\ sock.unix)
         /\ _con = "unix" => (unixAttempts = 1 /\ probe.reachable /\ ~sock.https)
         /\ _con = "https" => ~sock.unix
         /\ (unixAttempts = 1 /\ ~probe.reachable) => _con = "https"
         /\ (unixAttempts = 1 /\ probe.reachable /\ probe.body \in GoodBodies)
            => _con = "unix" )

\* a write went over the unix socket, the TLS connection being closed
C25_Witness ==
    /\ pc = "open"
    /\ _con = "unix"
    /\ sock.unix
    /\ ~sock.https
    /\ last.op = "write"
    /\ last.reqs[1].via = "unix"

\* C26: the unix socket is tried at most once, by the constructor, and only
\* when the probe was answered 200 with a unix_socket entry and the peer is
\* local; no later call tries it or changes which connection is active.
C26_UnixTriedOnce ==
    [][ /\ unixAttempts' <= 1
        /\ pc # "new" => (unixAttempts' = unixAttempts /\ _con' = _con)
        /\ (pc = "new" /\ unixAttempts' = 1)
           => ( /\ probe'.local
                /\ probe'.status = OK
                /\ probe'.body.json
                /\ \/ probe'.body.unix_socket # ""
                   \/ Advertised(probe'.body, "unix_socket") ) ]_vars

\* a flush went over the unix socket connected by the constructor
C26_Witness ==
    /\ unixAttempts = 1
    /\ _con = "unix"
    /\ last.op = "flush"
    /\ last.err = ""
    /\ last.reqs[1].via = "unix"

-----------------------------------------------------------------------------
(* Claims about the requests of one call, checked under Spec.             *)

\* C27: the copy loop of readinto ends for every split of the body into
\* partial reads.  Once the status and content-length checks have passed,
\* either the whole body arrived and the call succeeds with the buffer
\* holding the len(buffer) bytes of the range in stream order, or the body
\* ended early and the call fails, the buffer holding the bytes received in
\* order and nothing else; no success leaves a byte of the buffer unfilled.
C27_ReadAll ==
    ( /\ last.op = "readinto"
      /\ last.status = PARTIAL_CONTENT
      /\ last.clen = last.arg[1] )
    => LET n == last.arg[1]
           got == IF last.fault = "eof" THEN n - 1 ELSE n
       IN /\ Len(last.buf) = n
          /\ \A i \in 1..got : last.buf[i] = image[last.pos0 + i].data
          /\ \A i \in (got + 1)..n : last.buf[i] = Stale
          /\ got = n => (last.err = "" /\ last.ret = n)
          /\ got < n => last.err = "RuntimeError"
          /\ last.err = "" => \A i \in 1..n : last.buf[i] \in Byte

\* a two-byte read whose body ended after the first byte
C27_Witness ==
    /\ last.op = "readinto"
    /\ last.fault = "eof"
    /\ last.arg = <<MaxImage>>
    /\ last.pos0 = 0
    /\ last.err = "RuntimeError"
    /\ last.buf[1] = image[1].data
    /\ last.buf[MaxImage] = Stale

\* C28: a call of readinto, write, zero or flush sends exactly one request,
\* a GET, a PUT or a PATCH; when the answer has an unexpected status, a
\* content-length other than the length asked for, or a body that ends
\* early, the call raises and has still sent that one request only.
C28_OneRequestPerCall ==
    last.op \in {"readinto", "write", "zero", "flush"}
    => /\ Len(last.reqs) = 1
       /\ last.reqs[1].method =
              ( CASE last.op = "readinto" -> "GET"
                  [] last.op = "write" -> "PUT"
                  [] OTHER -> "PATCH" )
       /\ last.op = "readinto"
          => /\ last.status # PARTIAL_CONTENT => last.err = "RuntimeError"
             /\ last.clen # last.arg[1] => last.err = "RuntimeError"
             /\ last.fault = "eof" => last.err = "RuntimeError"
       /\ last.op # "readinto"
          => (last.status # OK => last.err = "RuntimeError")

\* a zero request answered with an error: one PATCH, and the call raised
C28_Witness ==
    /\ last.op = "zero"
    /\ last.fault = "status"
    /\ last.err = "RuntimeError"
    /\ Len(last.reqs) = 1
    /\ last.reqs[1].method = "PATCH"

-----------------------------------------------------------------------------
(* Claims about the emulated size, checked under SpecOpen.                *)

\* C29: a size() resolved by emulation sends one GET without range, reads
\* nothing of the body, takes the content-length as the size and leaves the
\* active connection closed; the next call that sends a request finds it
\* closed, opens a connection of the same kind (TLS or unix socket), sends
\* its request over it and, when its range is valid and the server answers
\* honestly, succeeds.
C29_EmulatedSizeReconnects ==
    [][ ( /\ pc = "open"
          /\ last.op = "size"
          /\ last.reqs # <<>>
          /\ last.err = ""
          /\ ~_can_extents )
        => ( /\ last.reqs[1].method = "GET"
             /\ last.reqs[1].range = <<>>
             /\ last.buf = <<>>
             /\ last.ret = ImageBytes(image, unit)
             /\ ~sock[_con]
             /\ last'.reqs # <<>>
                => ( /\ _con' = _con
                     /\ sock'[_con]
                     /\ ~sock'[IF _con = "unix" THEN "https" ELSE "unix"]
                     /\ Len(last'.reqs) = 1
                     /\ last'.reqs[1].via = _con
                     /\ ~last'.open0
                     /\ ( \/ last'.op = "flush"
                          \/ ValidRange(image, _position, _position) )
                        => last'.err = "" ) ) ]_vars

\* a read over the unix socket that had to reconnect after an emulated size
C29_Witness ==
    /\ last.op = "readinto"
    /\ ~last.open0
    /\ ~closed
    /\ ~_can_extents
    /\ _size = Some(ImageBytes(image, unit))
    /\ _con = "unix"
    /\ sock.unix
    /\ last.reqs[1].via = "unix"
    /\ last.err = ""

-----------------------------------------------------------------------------
(* Claims about failed calls, checked under SpecFail.                     *)

\* C30: a readinto, write or zero that raises (unexpected status,
\* content-length mismatch, body ended early), and a seek(n, SEEK_END) that
\* raises while the size is resolved, leave the position at the value it
\* had before the call.
C30_FailureKeepsPosition ==
    ( /\ \/ last.op \in {"readinto", "write", "zero"}
         \/ last.op = "seek" /\ last.arg[2] = SEEK_END
      /\ last.err # "" )
    => _position = last.pos0

\* seek(-1, SEEK_END) at position 1 failed on the size request
C30_Witness ==
    /\ last.op = "seek"
    /\ last.arg = <<-1, SEEK_END>>
    /\ last.fault = "status"
    /\ last.err = "RuntimeError"
    /\ last.pos0 = 1
    /\ _position = 1
    /\ _size = None

-----------------------------------------------------------------------------
(* Claims about the extent cache and the size, checked under SpecExt.     *)

\* C31: a call whose extents query fails (404, another status than 200, a
\* body that is not JSON or a record without the flag of the context)
\* raises and leaves the extent cache and the size as they were, the
\* context uncached and, for the zero context, the size unresolved; the
\* next extents(context), and the next size() for the zero context, sends
\* the query again.
C31_FailedQueryNotCached ==
    [][ /\ ( /\ last'.reqs # <<>>
             /\ IsExtentsPath(last'.reqs[1].path)
             /\ \/ last'.status # OK
                \/ last'.err \in {"ValueError", "KeyError"} )
           => ( /\ last'.err # ""
                /\ last'.out = <<>>
                /\ _extents' = _extents
                /\ _size' = _size
                /\ _extents'[PathContext(last'.reqs[1].path)] = None )
        /\ ( /\ pc = "open"
             /\ last.reqs # <<>>
             /\ IsExtentsPath(last.reqs[1].path)
             /\ \/ last.status # OK
                \/ last.err \in {"ValueError", "KeyError"} )
           => ( /\ _extents[PathContext(last.reqs[1].path)] = None
                /\ PathContext(last.reqs[1].path) = "zero" => _size = None
                /\ ( /\ last'.op = "extents"
                     /\ last'.arg = <<PathContext(last.reqs[1].path)>> )
                   => last'.reqs = <<ExtentsRequest(last'.arg[1])>>
                /\ ( /\ last'.op = "size"
                     /\ PathContext(last.reqs[1].path) = "zero" )
                   => last'.reqs = <<ExtentsRequest("zero")>> ) ]_vars

\* size() failed on a record without the zero flag after the dirty extents
\* had been cached: the zero context is uncached and the size unresolved
C31_Witness ==
    /\ last.op = "size"
    /\ last.fault = "nokey"
    /\ last.err = "KeyError"
    /\ last.reqs = <<ExtentsRequest("zero")>>
    /\ _extents["zero"] = None
    /\ _extents["dirty"] # None
    /\ _size = None

\* C32: with extent capability, a size() that resolves the size sends one
\* extents query for the "zero" context, or none when that context is
\* already cached, and leaves the zero context cached with a list that ends
\* at the size; once the size is resolved, extents("zero") sends no request;
\* the dirty context becomes cached only by a call of extents("dirty").
C32_SizeFillsZeroCache ==
    [][ /\ ( /\ pc = "open"
             /\ _can_extents
             /\ last'.op = "size"
             /\ _size = None
             /\ last'.err = "" )
           => ( /\ last'.reqs = IF _extents["zero"] = None
                                THEN <<ExtentsRequest("zero")>> ELSE <<>>
                /\ _extents'["zero"] # None
                /\ _size' =
                      Some(extent_end(Val(_extents'["zero"])[Len(Val(_extents'["zero"]))]))
                /\ _extents'["dirty"] = _extents["dirty"] )
        /\ ( /\ pc = "open"
             /\ _can_extents
             /\ _size # None
             /\ last'.op = "extents"
             /\ last'.arg = <<"zero">> )
           => ( /\ last'.reqs = <<>>
                /\ last'.err = ""
                /\ last'.out = Val(_extents["zero"]) )
        /\ (_extents["dirty"] = None /\ _extents'["dirty"] # None)
           => (last'.op = "extents" /\ last'.arg = <<"dirty">>) ]_vars

\* the first size() has sent the zero query: the zero context is cached,
\* the dirty context is not
C32_Witness ==
    /\ _can_extents
    /\ last.op = "size"
    /\ last.err = ""
    /\ last.fault = "none"
    /\ last.reqs = <<ExtentsRequest("zero")>>
    /\ _size = Some(ImageBytes(image, unit))
    /\ _extents["zero"] = Some(SrvExtents(image, unit, "zero"))
    /\ _extents["dirty"] = None
    /\ extOk["zero"] = 1

====
